---------------------------- MODULE Spec2Model ----------------------------
(***************************************************************************)
(* Answer evaluation (evaluateAnswer) and SM-2 scheduling                  *)
(* (calculateNextReview) of the learnvoice study tool.                     *)
(*                                                                         *)
(* Representation.                                                         *)
(*  - A JavaScript string is a sequence of one-character strings.          *)
(*  - A JavaScript number that is the result of a division is kept as an   *)
(*    exact fraction [n |-> numerator, d |-> denominator] in lowest terms. *)
(*  - easeFactor is kept in hundredths (2.5 is 250): every SM-2 increment  *)
(*    is a multiple of 0.02.                                               *)
(*  - Math.round rounds an exact half upwards, but the binary64 value the  *)
(*    program rounds can lie a few ulps off the exact half.  The direction *)
(*    in which an exact half of the decimal model is resolved is therefore *)
(*    an attribute `halfUp` of the call's arguments: fixed for given       *)
(*    binary64 arguments, unknown to the decimal model.                    *)
(***************************************************************************)
EXTENDS Integers, Sequences, FiniteSets, TLC

(***************************************************************************)
(* Characters                                                              *)
(***************************************************************************)
UpperCase == <<"A","B","C","D","E","F","G","H","I","J","K","L","M",
               "N","O","P","Q","R","S","T","U","V","W","X","Y","Z">>

LowerCase == <<"a","b","c","d","e","f","g","h","i","j","k","l","m",
               "n","o","p","q","r","s","t","u","v","w","x","y","z">>

Digits == {"0","1","2","3","4","5","6","7","8","9"}

Range(s) == { s[i] : i \in DOMAIN s }

\* \w of a JavaScript regular expression: [A-Za-z0-9_]
WordChars == Range(UpperCase) \cup Range(LowerCase) \cup Digits \cup {"_"}

\* \s of a JavaScript regular expression (the members used here)
WhiteSpace == {" ", "\t", "\n"}

\* String.prototype.toLowerCase on one character
charToLowerCase(c) ==
    IF c \in Range(UpperCase)
    THEN LowerCase[CHOOSE i \in DOMAIN UpperCase : UpperCase[i] = c]
    ELSE c

toLowerCase(s) == [i \in DOMAIN s |-> charToLowerCase(s[i])]

(***************************************************************************)
(* String primitives                                                       *)
(***************************************************************************)
RECURSIVE trimStart(_)
trimStart(s) ==
    IF s # <<>> /\ Head(s) \in WhiteSpace THEN trimStart(Tail(s)) ELSE s

RECURSIVE trimEnd(_)
trimEnd(s) ==
    IF s # <<>> /\ s[Len(s)] \in WhiteSpace
    THEN trimEnd(SubSeq(s, 1, Len(s) - 1))
    ELSE s

\* String.prototype.trim
trim(s) == trimEnd(trimStart(s))

\* .replace(/[^\w\s]/g, ' ')
replaceNonWord(s) ==
    [i \in DOMAIN s |->
        IF s[i] \in WordChars \cup WhiteSpace THEN s[i] ELSE " "]

\* .replace(/\s+/g, ' ')
RECURSIVE collapseSpaces(_)
collapseSpaces(s) ==
    IF s = <<>> THEN <<>>
    ELSE IF Head(s) \in WhiteSpace
         THEN <<" ">> \o collapseSpaces(trimStart(s))
         ELSE <<Head(s)>> \o collapseSpaces(Tail(s))

\* a fault: runs of white space are not collapsed
normalizeTextUncollapsed(text) ==
    trim(replaceNonWord(trim(toLowerCase(text))))

normalizeText(text) ==
    trim(collapseSpaces(replaceNonWord(trim(toLowerCase(text)))))

\* String.prototype.includes
includes(s, sub) ==
    \E i \in 0..(Len(s) - Len(sub)) : SubSeq(s, i + 1, i + Len(sub)) = sub

\* String.prototype.split(' '): the pieces between single spaces, empty
\* pieces included; the empty string yields one empty piece.
RECURSIVE splitSpace(_, _)
splitSpace(s, piece) ==
    IF s = <<>> THEN <<piece>>
    ELSE IF Head(s) = " "
         THEN <<piece>> \o splitSpace(Tail(s), <<>>)
         ELSE splitSpace(Tail(s), Append(piece, Head(s)))

split(s) == splitSpace(s, <<>>)

\* String.prototype.split(/\s+/): the pieces between runs of white space.
RECURSIVE splitRuns(_, _)
splitRuns(s, piece) ==
    IF s = <<>> THEN <<piece>>
    ELSE IF Head(s) \in WhiteSpace
         THEN <<piece>> \o splitRuns(trimStart(s), <<>>)
         ELSE splitRuns(Tail(s), Append(piece, Head(s)))

splitWhiteSpace(s) == splitRuns(s, <<>>)

\* Array.prototype.join(' ')
RECURSIVE join(_)
join(ws) ==
    IF ws = <<>> THEN <<>>
    ELSE IF Len(ws) = 1 THEN ws[1]
    ELSE ws[1] \o <<" ">> \o join(Tail(ws))

(***************************************************************************)
(* Numbers                                                                 *)
(***************************************************************************)
Min(a, b) == IF a <= b THEN a ELSE b

Max(a, b) == IF a >= b THEN a ELSE b

RECURSIVE GCD(_, _)
GCD(a, b) == IF b = 0 THEN a ELSE GCD(b, a % b)

\* the fraction n/d (n >= 0, d > 0) in lowest terms
Frac(n, d) == LET g == GCD(n, d) IN [n |-> n \div g, d |-> d \div g]

FracLess(x, y) == x.n * y.d < y.n * x.d

\* Math.round of the fraction x >= 0; an exact half goes up when halfUp
MathRound(x, halfUp) ==
    LET up == (2 * x.n + x.d) \div (2 * x.d)
    IN  IF (2 * x.n + x.d) % (2 * x.d) = 0 /\ ~halfUp THEN up - 1 ELSE up

(***************************************************************************)
(* textProcessing                                                          *)
(***************************************************************************)
\* one row of the dp table: cur holds dp[i][0..j-1], prev is dp[i-1]
RECURSIVE levenshteinRow(_, _, _, _)
levenshteinRow(prev, ch, b, cur) ==
    LET j == Len(cur)
    IN  IF j > Len(b) THEN cur
        ELSE levenshteinRow(prev, ch, b,
                Append(cur,
                    IF ch = b[j]
                    THEN prev[j]
                    ELSE 1 + Min(Min(prev[j + 1], cur[j]), prev[j])))

\* rows 1..m of the table, one after the other; the row is bound to its
\* value before the next one is computed from it
RECURSIVE levenshteinRows(_, _, _, _)
levenshteinRows(a, b, i, prev) ==
    IF i > Len(a) THEN prev[Len(b) + 1]
    ELSE CHOOSE d \in { levenshteinRows(a, b, i + 1, row) :
                          row \in {levenshteinRow(prev, a[i], b, <<i>>)} } : TRUE

\* a fault: dp[0][j] starts at 0 for every j
levenshteinDistanceFromZero(a, b) ==
    levenshteinRows(a, b, 1, [j \in 1..(Len(b) + 1) |-> 0])

levenshteinDistance(a, b) ==
    levenshteinRows(a, b, 1, [j \in 1..(Len(b) + 1) |-> j - 1])

\* a fault: the strings are compared as they are, case included
fuzzyMatchCased(word, target, threshold) ==
    LET maxLen == Max(Len(word), Len(target))
    IN  IF word = target THEN TRUE
        ELSE IF includes(word, target) \/ includes(target, word) THEN TRUE
        ELSE IF maxLen = 0 THEN TRUE
        ELSE 100 * (maxLen - levenshteinDistance(word, target)) >= threshold * maxLen

\* threshold in hundredths
fuzzyMatch(word, target, threshold) ==
    LET a == toLowerCase(word)
        b == toLowerCase(target)
        maxLen == Max(Len(a), Len(b))
    IN  IF a = b THEN TRUE
        ELSE IF includes(a, b) \/ includes(b, a) THEN TRUE
        ELSE IF maxLen = 0 THEN TRUE
        ELSE 100 * (maxLen - levenshteinDistance(a, b)) >= threshold * maxLen

KeywordThreshold == 75

\* a fault: one matching word of a multi-word keyword is enough
findKeywordInTextAnyWord(text, keyword) ==
    LET normalizedText == normalizeText(text)
        normalizedKeyword == normalizeText(keyword)
        textWords == split(normalizedText)
        keywordWords == split(normalizedKeyword)
    IN  IF includes(normalizedText, normalizedKeyword) THEN TRUE
        ELSE \E k \in DOMAIN keywordWords :
                \E t \in DOMAIN textWords :
                    fuzzyMatch(textWords[t], keywordWords[k], KeywordThreshold)

findKeywordInText(text, keyword) ==
    LET normalizedText == normalizeText(text)
        normalizedKeyword == normalizeText(keyword)
        textWords == split(normalizedText)
        keywordWords == split(normalizedKeyword)
    IN  IF includes(normalizedText, normalizedKeyword) THEN TRUE
        ELSE IF Len(keywordWords) > 1
             THEN \A k \in DOMAIN keywordWords :
                    \E t \in DOMAIN textWords :
                        fuzzyMatch(textWords[t], keywordWords[k], KeywordThreshold)
             ELSE \E t \in DOMAIN textWords :
                    fuzzyMatch(textWords[t], normalizedKeyword, KeywordThreshold)

RECURSIVE Sum(_)
Sum(ws) == IF ws = <<>> THEN 0 ELSE Head(ws) + Sum(Tail(ws))

\* weights[index] || 1: an absent or zero weight counts 1
weightAt(weights, index) ==
    IF index \in DOMAIN weights /\ weights[index] # 0 THEN weights[index] ELSE 1

\* a fault: every found keyword counts 1, whatever its weight
analyzeKeywordsUnweighted(text, keywords, weights) ==
    IF Len(keywords) = 0 THEN [score |-> Frac(100, 1), details |-> <<>>]
    ELSE
      LET details == [index \in DOMAIN keywords |->
                        [keyword |-> keywords[index],
                         found   |-> findKeywordInText(text, keywords[index]),
                         weight  |-> weightAt(weights, index)]]
          matched == Cardinality({index \in DOMAIN details : details[index].found})
      IN  [score |-> Frac(matched * 100, Len(keywords)), details |-> details]

\* a fault: the matched weight is the weight of the last keyword found
analyzeKeywordsLastFound(text, keywords, weights) ==
    IF Len(keywords) = 0 THEN [score |-> Frac(100, 1), details |-> <<>>]
    ELSE
      LET totalWeight == Sum(weights)
          details == [index \in DOMAIN keywords |->
                        [keyword |-> keywords[index],
                         found   |-> findKeywordInText(text, keywords[index]),
                         weight  |-> weightAt(weights, index)]]
          found == {index \in DOMAIN details : details[index].found}
          matchedWeight ==
              IF found = {} THEN 0
              ELSE details[CHOOSE index \in found : \A other \in found : other <= index].weight
      IN  [score   |-> IF totalWeight > 0
                       THEN Frac(matchedWeight * 100, totalWeight)
                       ELSE Frac(0, 1),
           details |-> details]

analyzeKeywords(text, keywords, weights) ==
    IF Len(keywords) = 0 THEN [score |-> Frac(100, 1), details |-> <<>>]
    ELSE
      LET totalWeight == Sum(weights)
          details == [index \in DOMAIN keywords |->
                        [keyword |-> keywords[index],
                         found   |-> findKeywordInText(text, keywords[index]),
                         weight  |-> weightAt(weights, index)]]
          matchedWeight ==
              Sum([index \in DOMAIN details |->
                      IF details[index].found THEN details[index].weight ELSE 0])
      IN  [score   |-> IF totalWeight > 0
                       THEN Frac(matchedWeight * 100, totalWeight)
                       ELSE Frac(0, 1),
           details |-> details]

\* new Set(normalizeText(a).split(' ').filter(Boolean))
wordSet(a) == Range(split(normalizeText(a))) \ {<<>>}

\* a fault: the union counts the common words twice
wordOverlapSimilarityOfSum(a, b) ==
    LET wordsA == wordSet(a)
        wordsB == wordSet(b)
    IN  IF wordsA = {} /\ wordsB = {} THEN Frac(100, 1)
        ELSE IF wordsA = {} \/ wordsB = {} THEN Frac(0, 1)
        ELSE Frac(Cardinality(wordsA \cap wordsB) * 100,
                  Cardinality(wordsA) + Cardinality(wordsB))

wordOverlapSimilarity(a, b) ==
    LET wordsA == wordSet(a)
        wordsB == wordSet(b)
    IN  IF wordsA = {} /\ wordsB = {} THEN Frac(100, 1)
        ELSE IF wordsA = {} \/ wordsB = {} THEN Frac(0, 1)
        ELSE Frac(Cardinality(wordsA \cap wordsB) * 100,
                  Cardinality(wordsA \cup wordsB))

(***************************************************************************)
(* evaluationService                                                       *)
(***************************************************************************)
\* text.split(/\s+/).filter((w) => w.length > 2)
RECURSIVE longWords(_)
longWords(ws) ==
    IF ws = <<>> THEN <<>>
    ELSE IF Len(Head(ws)) > 2 THEN <<Head(ws)>> \o longWords(Tail(ws))
    ELSE longWords(Tail(ws))

\* a fault: the words of 1 and 2 characters are not filtered out
extractPhrasesOfAllWords(text, minWords) ==
    LET words == splitWhiteSpace(text)
    IN  [i \in 1..Max(0, Len(words) - minWords + 1) |->
            join(SubSeq(words, i, i + minWords - 1))]

extractPhrases(text, minWords) ==
    LET words == longWords(splitWhiteSpace(text))
    IN  [i \in 1..Max(0, Len(words) - minWords + 1) |->
            join(SubSeq(words, i, i + minWords - 1))]

\* messages.length of every category
MessageTemplates == 3

\* a fault: a score of exactly 90 does not count as excellent
categoryOfAbove90(score) ==
    IF score = 100 THEN "perfect"
    ELSE IF score > 90 THEN "excellent"
    ELSE IF score >= 70 THEN "good"
    ELSE IF score >= 50 THEN "needsWork"
    ELSE "incorrect"

categoryOf(score) ==
    IF score = 100 THEN "perfect"
    ELSE IF score >= 90 THEN "excellent"
    ELSE IF score >= 70 THEN "good"
    ELSE IF score >= 50 THEN "needsWork"
    ELSE "incorrect"

\* a fault: the category is taken from the template's position, so that the
\* last template of a category reads as the category below
generateFeedbackByTemplate(score, missingKeywords, random) ==
    LET category == categoryOf(IF random = MessageTemplates - 1 THEN score - 10 ELSE score)
    IN  [message  |-> [category |-> category, template |-> random, score |-> score],
         details  |-> [form |-> "none", count |-> 0, terms |-> <<>>],
         category |-> category]

\* random is Math.floor(Math.random() * messages.length).  A message is
\* identified by its category, its template and the score it interpolates
\* (the perfect templates interpolate none).
generateFeedback(score, missingKeywords, random) ==
    LET category == categoryOf(score)
    IN  [message  |-> [category |-> category,
                       template |-> random,
                       score    |-> IF category = "perfect" THEN 100 ELSE score],
         details  |-> IF Len(missingKeywords) > 0 /\ score < 100
                      THEN IF Len(missingKeywords) <= 3
                           THEN [form |-> "list", count |-> Len(missingKeywords),
                                 terms |-> missingKeywords]
                           ELSE [form |-> "count", count |-> Len(missingKeywords),
                                 terms |-> SubSeq(missingKeywords, 1, 3)]
                      ELSE [form |-> "none", count |-> 0, terms |-> <<>>],
         category |-> category]

\* question.expectedAnswers[0] || ''
firstExpected(question) ==
    IF Len(question.expectedAnswers) > 0 THEN question.expectedAnswers[1] ELSE <<>>

\* a fault: only the first expected answer is compared
exactMatchFirstOnly(normalized, question) ==
    normalizeText(firstExpected(question)) = normalized

\* step 1: some expected answer normalizes to the normalized user answer
exactMatch(normalized, question) ==
    \E e \in DOMAIN question.expectedAnswers :
        normalizeText(question.expectedAnswers[e]) = normalized

\* the running maximum of a loop `if (v > best) best = v` started at 0
RECURSIVE best(_, _)
best(values, soFar) ==
    IF values = <<>> THEN soFar
    ELSE best(Tail(values), IF FracLess(soFar, Head(values)) THEN Head(values) ELSE soFar)

bestOverlap(normalized, question) ==
    best([e \in DOMAIN question.expectedAnswers |->
            wordOverlapSimilarity(normalized, question.expectedAnswers[e])],
         Frac(0, 1))

\* Math.max(0, 1 - dist / maxLen) * 100
distanceSimilarity(normalized, normAlt) ==
    LET dist == levenshteinDistance(normalized, normAlt)
        maxLen == Max(Max(Len(normalized), Len(normAlt)), 1)
    IN  IF dist >= maxLen THEN Frac(0, 1) ELSE Frac((maxLen - dist) * 100, maxLen)

bestDistanceScore(normalized, question) ==
    best([e \in DOMAIN question.expectedAnswers |->
            distanceSimilarity(normalized, normalizeText(question.expectedAnswers[e]))],
         Frac(0, 1))

\* a fault: an expected answer without phrases counts as fully matched
phraseScoreFullWithout(normalizedLower, expected) ==
    LET expectedLower == toLowerCase(normalizeText(expected))
        phrases == extractPhrases(expectedLower, 2)
        matchedPhrases ==
            Cardinality({p \in DOMAIN phrases : includes(normalizedLower, phrases[p])})
    IN  IF Len(phrases) > 0 THEN Frac(matchedPhrases * 100, Len(phrases))
        ELSE Frac(100, 1)

\* the phrases of one expected answer found in the user answer, in percent;
\* an answer without phrases leaves phraseBonus as it is (contributes 0)
phraseScore(normalizedLower, expected) ==
    LET expectedLower == toLowerCase(normalizeText(expected))
        phrases == extractPhrases(expectedLower, 2)
        matchedPhrases ==
            Cardinality({p \in DOMAIN phrases : includes(normalizedLower, phrases[p])})
    IN  IF Len(phrases) > 0 THEN Frac(matchedPhrases * 100, Len(phrases))
        ELSE Frac(0, 1)

phraseBonus(normalized, question) ==
    best([e \in DOMAIN question.expectedAnswers |->
            phraseScore(toLowerCase(normalized), question.expectedAnswers[e])],
         Frac(0, 1))

\* a fault: the overlap weighs 0.35 and the keywords 0.35
weightedSumOverlapHeavy(k, o, d, p) ==
    Frac(35 * k.n * o.d * d.d * p.d + 35 * o.n * k.d * d.d * p.d
           + 15 * d.n * k.d * o.d * p.d + 15 * p.n * k.d * o.d * d.d,
         100 * k.d * o.d * d.d * p.d)

\* keyword*0.45 + overlap*0.25 + distance*0.15 + phrase*0.15
weightedSum(k, o, d, p) ==
    Frac(45 * k.n * o.d * d.d * p.d + 25 * o.n * k.d * d.d * p.d
           + 15 * d.n * k.d * o.d * p.d + 15 * p.n * k.d * o.d * d.d,
         100 * k.d * o.d * d.d * p.d)

RECURSIVE missingOf(_)
missingOf(details) ==
    IF details = <<>> THEN <<>>
    ELSE IF ~Head(details).found
         THEN <<Head(details).keyword>> \o missingOf(Tail(details))
         ELSE missingOf(Tail(details))

evaluateAnswer(userAnswer, question, random, halfUp) ==
    LET normalized == normalizeText(userAnswer)
        expectedAnswer == firstExpected(question)
    IN  IF exactMatch(normalized, question)
        THEN [score          |-> 100,
              keywordScore   |-> 100,
              keywordDetails |-> [i \in DOMAIN question.keywords |->
                                    [keyword |-> question.keywords[i],
                                     found   |-> TRUE,
                                     weight  |-> weightAt(question.keywordWeights, i)]],
              feedback       |-> generateFeedback(100, <<>>, random),
              userAnswer     |-> normalized,
              expectedAnswer |-> expectedAnswer]
        ELSE
          LET keywordResult ==
                  analyzeKeywords(normalized, question.keywords, question.keywordWeights)
              combinedScore ==
                  MathRound(weightedSum(keywordResult.score,
                                        bestOverlap(normalized, question),
                                        bestDistanceScore(normalized, question),
                                        phraseBonus(normalized, question)),
                            halfUp)
              finalScore == Min(100, Max(0, combinedScore))
          IN  [score          |-> finalScore,
               keywordScore   |-> MathRound(keywordResult.score, halfUp),
               keywordDetails |-> keywordResult.details,
               feedback       |-> generateFeedback(finalScore,
                                      missingOf(keywordResult.details), random),
               userAnswer     |-> normalized,
               expectedAnswer |-> expectedAnswer]

\* the strategies a call runs after the exact-match check
strategiesRun(userAnswer, question) ==
    IF exactMatch(normalizeText(userAnswer), question) THEN {}
    ELSE {"keyword", "overlap", "distance", "phrase"}

\* 24 * 60 * 60 * 1000 ms; the clock of the model counts hours
DayTicks == 24

InitialEaseFactor == 250

MinEaseFactor == 130

\* a fault: Math.ceil in place of Math.round
qualityOfCeil(score) == (score + 19) \div 20

\* a fault: Math.floor in place of Math.round
qualityOfFloor(score) == score \div 20

\* Math.round((score / 100) * 5): score/20 rounded, an exact half upwards
\* (for the scores 0..100 the binary64 product is the exact half itself)
qualityOf(score) == MathRound(Frac(score * 5, 100), TRUE)

\* a fault: the floor of 1.3 is missing
nextEaseFactorNoFloor(easeFactor, quality) ==
    easeFactor + (10 - (5 - quality) * (8 + (5 - quality) * 2))

\* easeFactor + (0.1 - (5 - quality) * (0.08 + (5 - quality) * 0.02)),
\* then Math.max(1.3, easeFactor); in hundredths
nextEaseFactor(easeFactor, quality) ==
    Max(MinEaseFactor,
        easeFactor + (10 - (5 - quality) * (8 + (5 - quality) * 2)))

\* a fault: the interval grows from 6 days at every pass
nextIntervalFromSix(interval, easeFactor, halfUp) ==
    MathRound(Frac(6 * easeFactor, 100), halfUp)

\* Math.round(interval * easeFactor)
nextInterval(interval, easeFactor, halfUp) ==
    MathRound(Frac(interval * easeFactor, 100), halfUp)

\* a fault: easeFactor is updated before the interval is computed from it
calculateNextReviewEaseFirst(score, currentEaseFactor, currentInterval, currentRepetitions, now, halfUp) ==
    LET quality == qualityOf(score)
        easeFactor == nextEaseFactor(currentEaseFactor, quality)
        interval ==
            IF quality >= 3
            THEN IF currentRepetitions = 0 THEN 1
                 ELSE IF currentRepetitions = 1 THEN 6
                 ELSE nextInterval(currentInterval, easeFactor, halfUp)
            ELSE 1
        repetitions == IF quality >= 3 THEN currentRepetitions + 1 ELSE 0
    IN  [easeFactor     |-> easeFactor,
         interval       |-> interval,
         repetitions    |-> repetitions,
         nextReviewDate |-> now + interval * DayTicks]

\* a fault: the second pass is not special-cased to 6 days
calculateNextReviewNoSix(score, currentEaseFactor, currentInterval, currentRepetitions, now, halfUp) ==
    LET quality == qualityOf(score)
        interval ==
            IF quality >= 3
            THEN IF currentRepetitions = 0 THEN 1
                 ELSE nextInterval(currentInterval, currentEaseFactor, halfUp)
            ELSE 1
        repetitions == IF quality >= 3 THEN currentRepetitions + 1 ELSE 0
    IN  [easeFactor     |-> nextEaseFactor(currentEaseFactor, quality),
         interval       |-> interval,
         repetitions    |-> repetitions,
         nextReviewDate |-> now + interval * DayTicks]

\* a fault: a failed review keeps the interval
calculateNextReviewKeepsInterval(score, currentEaseFactor, currentInterval, currentRepetitions, now, halfUp) ==
    LET quality == qualityOf(score)
        interval ==
            IF quality >= 3
            THEN IF currentRepetitions = 0 THEN 1
                 ELSE IF currentRepetitions = 1 THEN 6
                 ELSE nextInterval(currentInterval, currentEaseFactor, halfUp)
            ELSE currentInterval
        repetitions == IF quality >= 3 THEN currentRepetitions + 1 ELSE 0
    IN  [easeFactor     |-> nextEaseFactor(currentEaseFactor, quality),
         interval       |-> interval,
         repetitions    |-> repetitions,
         nextReviewDate |-> now + interval * DayTicks]

calculateNextReview(score, currentEaseFactor, currentInterval, currentRepetitions, now, halfUp) ==
    LET quality == qualityOf(score)
        interval ==
            IF quality >= 3
            THEN IF currentRepetitions = 0 THEN 1
                 ELSE IF currentRepetitions = 1 THEN 6
                 ELSE nextInterval(currentInterval, currentEaseFactor, halfUp)
            ELSE 1
        repetitions == IF quality >= 3 THEN currentRepetitions + 1 ELSE 0
    IN  [easeFactor     |-> nextEaseFactor(currentEaseFactor, quality),
         interval       |-> interval,
         repetitions    |-> repetitions,
         nextReviewDate |-> now + interval * DayTicks]

(***************************************************************************)
(* The item store: questionService (native) and webStorage (web).  A       *)
(* stored question is kept with the fields the evaluator, the scheduler    *)
(* and the queries read; an absent nextReviewDate or lastReviewed is <<>>, *)
(* a present one <<t>>.                                                    *)
(***************************************************************************)
\* the value undefined of a property that holds a list of strings: no list
\* of strings equals it, since no character is "undefined"
undefined == << <<"undefined">> >>

STOP_WORDS ==
    { <<"a">>, <<"a","n">>, <<"t","h","e">>, <<"i","s">>, <<"a","r","e">>,
      <<"w","a","s">>, <<"w","e","r","e">>, <<"b","e">>, <<"b","e","e","n">>,
      <<"b","e","i","n","g">>, <<"h","a","v","e">>, <<"h","a","s">>,
      <<"h","a","d">>, <<"d","o">>, <<"d","o","e","s">>, <<"d","i","d">>,
      <<"w","i","l","l">>, <<"w","o","u","l","d">>, <<"c","o","u","l","d">>,
      <<"s","h","o","u","l","d">>, <<"m","a","y">>, <<"m","i","g","h","t">>,
      <<"s","h","a","l","l">>, <<"c","a","n">>, <<"o","f">>, <<"i","n">>,
      <<"t","o">>, <<"f","o","r">>, <<"w","i","t","h">>, <<"o","n">>,
      <<"a","t">>, <<"b","y">>, <<"f","r","o","m">>, <<"a","s">>,
      <<"i","n","t","o">>, <<"t","h","r","o","u","g","h">>,
      <<"d","u","r","i","n","g">>, <<"b","e","f","o","r","e">>,
      <<"a","f","t","e","r">>, <<"a","n","d">>, <<"b","u","t">>, <<"o","r">>,
      <<"n","o","r">>, <<"n","o","t">>, <<"s","o">>, <<"y","e","t">>,
      <<"b","o","t","h">>, <<"e","i","t","h","e","r">>,
      <<"n","e","i","t","h","e","r">>, <<"e","a","c","h">>,
      <<"e","v","e","r","y">>, <<"a","l","l">>, <<"a","n","y">>,
      <<"f","e","w">>, <<"m","o","r","e">>, <<"m","o","s","t">>,
      <<"o","t","h","e","r">>, <<"s","o","m","e">>, <<"s","u","c","h">>,
      <<"n","o">>, <<"o","n","l","y">>, <<"o","w","n">>, <<"s","a","m","e">>,
      <<"t","h","a","n">>, <<"t","o","o">>, <<"v","e","r","y">>,
      <<"j","u","s","t">>, <<"b","e","c","a","u","s","e">>, <<"i","t">>,
      <<"i","t","s">>, <<"t","h","i","s">>, <<"t","h","a","t">>,
      <<"t","h","e","s","e">>, <<"t","h","o","s","e">>, <<"i">>, <<"m","e">>,
      <<"m","y">>, <<"w","e">>, <<"o","u","r">>, <<"y","o","u">>,
      <<"y","o","u","r">>, <<"h","e">>, <<"s","h","e">>, <<"t","h","e","y">>,
      <<"t","h","e","m">>, <<"t","h","e","i","r">>, <<"w","h","a","t">>,
      <<"w","h","i","c","h">>, <<"w","h","o">>, <<"w","h","o","m">> }

\* .replace(/[^a-z0-9\s]/g, '')
keepLowerAlnum(s) ==
    SelectSeq(s, LAMBDA c : c \in Range(LowerCase) \cup Digits \cup WhiteSpace)

\* .filter((word, index, arr) => arr.indexOf(word) === index)
RECURSIVE firstOccurrences(_, _)
firstOccurrences(ws, seen) ==
    IF ws = <<>> THEN <<>>
    ELSE IF Head(ws) \in seen THEN firstOccurrences(Tail(ws), seen)
    ELSE <<Head(ws)>> \o firstOccurrences(Tail(ws), seen \cup {Head(ws)})

extractKeywords(text) ==
    LET words == splitWhiteSpace(keepLowerAlnum(toLowerCase(text)))
        kept == SelectSeq(words, LAMBDA word : Len(word) > 2 /\ word \notin STOP_WORDS)
        distinct == firstOccurrences(kept, {})
    IN  SubSeq(distinct, 1, Min(10, Len(distinct)))

\* input.keywords?.length, for a list of strings or undefined
hasKeywords(list) == list # undefined /\ Len(list) > 0

\* the question createQuestion stores and returns; id is the fresh uuid.  An
\* absent keywordWeights and an empty one take the same branch
\* (keywordWeights?.length), so that the input always carries a list.
createQuestion(input, id) ==
    LET keywords == IF hasKeywords(input.keywords) THEN input.keywords
                    ELSE extractKeywords(firstExpected(input))
        weights == IF Len(input.keywordWeights) > 0 THEN input.keywordWeights
                   ELSE [i \in DOMAIN keywords |-> 1]
    IN  [id |-> id, deckId |-> input.deckId,
         expectedAnswers |-> input.expectedAnswers,
         keywords |-> keywords, keywordWeights |-> weights,
         lastReviewed |-> <<>>, masteryLevel |-> 0, reviewCount |-> 0,
         correctCount |-> 0, easeFactor |-> InitialEaseFactor, interval |-> 0,
         repetitions |-> 0, nextReviewDate |-> <<>>]

\* the properties updateQuestion may change, of those the model keeps
Updatable == {"expectedAnswers", "keywords", "keywordWeights"}

\* updates[f] === undefined; a keywordWeights property of the model, when
\* present, holds a list of numbers
isUndefined(updates, f) == f # "keywordWeights" /\ updates[f] = undefined

\* questionService.updateQuestion: one SET clause per property of the
\* update that is not undefined.  The lists are written as JSON text and
\* read back by mapRowToQuestion, which yields lists of the same elements.
updateQuestionNative(q, updates) ==
    [f \in DOMAIN q |->
        IF f \in DOMAIN updates /\ f \in Updatable /\ ~isUndefined(updates, f)
        THEN updates[f] ELSE q[f]]

\* webStorage.updateQuestion: Object.assign(q, updates) copies every
\* property of the update, an undefined one included
updateQuestionWeb(q, updates) ==
    [f \in DOMAIN q |-> IF f \in DOMAIN updates THEN updates[f] ELSE q[f]]

\* the store after updateQuestion(id, updates); an unknown id changes nothing
updateQuestion(onPlatform, stored, id, updates) ==
    [i \in DOMAIN stored |->
        IF stored[i].id # id THEN stored[i]
        ELSE IF onPlatform = "native" THEN updateQuestionNative(stored[i], updates)
        ELSE updateQuestionWeb(stored[i], updates)]

\* getQuestionsByDeck: the questions of the deck by createdAt, which is the
\* order of their creation
getQuestionsByDeck(stored, deckId) ==
    SelectSeq(stored, LAMBDA q : q.deckId = deckId)

\* the comparator of getDueQuestions is negative on (a, b)
dueBefore(a, b) ==
    \/ a.nextReviewDate = <<>> /\ b.nextReviewDate # <<>>
    \/ /\ a.nextReviewDate # <<>>
       /\ b.nextReviewDate # <<>>
       /\ a.nextReviewDate[1] < b.nextReviewDate[1]

\* Array.prototype.sort is stable: q goes behind what sorts before it
RECURSIVE insertDue(_, _)
insertDue(q, sorted) ==
    IF sorted = <<>> THEN <<q>>
    ELSE IF dueBefore(Head(sorted), q)
         THEN <<Head(sorted)>> \o insertDue(q, Tail(sorted))
         ELSE <<q>> \o sorted

RECURSIVE sortDue(_)
sortDue(list) ==
    IF list = <<>> THEN <<>> ELSE insertDue(Head(list), sortDue(Tail(list)))

\* a fault: a question is due only after its nextReviewDate has passed
getDueQuestionsLate(stored, deckId, limit, now) ==
    LET due == sortDue(SelectSeq(stored, LAMBDA q :
                   /\ q.deckId = deckId
                   /\ (q.nextReviewDate = <<>> \/ q.nextReviewDate[1] < now)))
    IN  IF limit # 0 THEN SubSeq(due, 1, Min(limit, Len(due))) ELSE due

\* limit is 0 when the call passes none: `if (limit)` takes both alike
getDueQuestions(stored, deckId, limit, now) ==
    LET due == sortDue(SelectSeq(stored, LAMBDA q :
                   /\ q.deckId = deckId
                   /\ (q.nextReviewDate = <<>> \/ q.nextReviewDate[1] <= now)))
    IN  IF limit # 0 THEN SubSeq(due, 1, Min(limit, Len(due))) ELSE due

\* the score that counts as a correct answer
CorrectScore == 70

\* a fault: every review counts as a correct answer
updateQuestionAfterReviewAllCorrect(stored, id, score, easeFactor, interval, repetitions, nextReviewDate, now) ==
    [i \in DOMAIN stored |->
        IF stored[i].id # id THEN stored[i]
        ELSE [stored[i] EXCEPT
                !.lastReviewed = <<now>>,
                !.masteryLevel = Min(100, score),
                !.reviewCount = @ + 1,
                !.correctCount = @ + 1,
                !.easeFactor = easeFactor,
                !.interval = interval,
                !.repetitions = repetitions,
                !.nextReviewDate = <<nextReviewDate>>]]

\* the store after updateQuestionAfterReview; score is an integer, so that
\* Math.round(score) is score
updateQuestionAfterReview(stored, id, score, easeFactor, interval, repetitions, nextReviewDate, now) ==
    [i \in DOMAIN stored |->
        IF stored[i].id # id THEN stored[i]
        ELSE [stored[i] EXCEPT
                !.lastReviewed = <<now>>,
                !.masteryLevel = Min(100, score),
                !.reviewCount = @ + 1,
                !.correctCount = IF score >= CorrectScore THEN @ + 1 ELSE @,
                !.easeFactor = easeFactor,
                !.interval = interval,
                !.repetitions = repetitions,
                !.nextReviewDate = <<nextReviewDate>>]]

(***************************************************************************)
(* Inputs                                                                  *)
(***************************************************************************)
\* the longest user answer, in tokens
MaxTokens == 3

\* the number of calculateNextReview calls of a behaviour
MaxReviews == 5

\* the latest reading of the clock
MaxClock == 1

\* the number of questions the store holds
MaxQuestions == 2

\* the longest string handed to levenshteinDistance, but for the example
MaxWordLen == 3

\* the number of answers submitted in the study sessions of a behaviour
MaxSubmits == 2

\* the days the clock of the study sessions runs
MaxDays == 7

the == <<"t","h","e">>

cell == <<"c","e","l","l">>

\* " cell"
spaceCell == <<" ">> \o cell

\* "Celt!"
CeltBang == <<"C","e","l","t","!">>

celt == <<"c","e","l","t">>

Tokens == {the, spaceCell, CeltBang}

RECURSIVE TextsUpTo(_)
TextsUpTo(n) ==
    IF n = 0 THEN {<<>>}
    ELSE LET shorter == TextsUpTo(n - 1)
         IN  shorter \cup {a \o tok : a \in shorter, tok \in Tokens}

theCell == the \o <<" ">> \o cell

\* "mitochondria is the powerhouse of the cell"
powerhouseAnswer ==
    <<"m","i","t","o","c","h","o","n","d","r","i","a"," ","i","s",
      " ","t","h","e"," ","p","o","w","e","r","h","o","u","s","e",
      " ","o","f"," ","t","h","e"," ","c","e","l","l">>

\* "the mitochondria is the powerhouse"
powerhouseReply ==
    <<"t","h","e"," ","m","i","t","o","c","h","o","n","d","r","i",
      "a"," ","i","s"," ","t","h","e"," ","p","o","w","e","r","h",
      "o","u","s","e">>

mitochondria == <<"m","i","t","o","c","h","o","n","d","r","i","a">>

powerhouse == <<"p","o","w","e","r","h","o","u","s","e">>

powerhouseItem ==
    [expectedAnswers |-> <<powerhouseAnswer>>,
     keywords        |-> <<mitochondria, powerhouse>>,
     keywordWeights  |-> <<1, 1>>]

\* "  ": white space only
blanks == <<" ", " ">>

\* "?!": punctuation only
marks == <<"?", "!">>

\* "a cell": one word of more than 2 characters
aCell == <<"a", " ">> \o cell

UserAnswers == TextsUpTo(MaxTokens) \cup {powerhouseReply, blanks, marks}

\* the items: none to two expected answers, with and without two words of
\* more than 2 characters, none to two keywords, and weight lists of the
\* keywords' length, shorter, and holding a 0
QuestionItems ==
    { [expectedAnswers |-> <<theCell>>,
       keywords |-> <<cell>>, keywordWeights |-> <<1>>],
      [expectedAnswers |-> <<cell, theCell \o <<"!">> >>,
       keywords |-> <<cell, the>>, keywordWeights |-> <<1, 2>>],
      [expectedAnswers |-> <<cell \o <<" ">> \o theCell>>,
       keywords |-> <<>>, keywordWeights |-> <<>>],
      [expectedAnswers |-> <<theCell>>,
       keywords |-> <<cell, the>>, keywordWeights |-> <<1>>],
      [expectedAnswers |-> <<theCell>>,
       keywords |-> <<cell, the>>, keywordWeights |-> <<0, 1>>],
      [expectedAnswers |-> <<theCell, celt>>,
       keywords |-> <<theCell>>, keywordWeights |-> <<2>>],
      [expectedAnswers |-> <<cell>>,
       keywords |-> <<cell>>, keywordWeights |-> <<0>>],
      [expectedAnswers |-> <<>>,
       keywords |-> <<cell>>, keywordWeights |-> <<1>>],
      [expectedAnswers |-> <<cell, aCell>>,
       keywords |-> <<cell>>, keywordWeights |-> <<2>>],
      powerhouseItem }

(***************************************************************************)
(* State                                                                   *)
(***************************************************************************)
VARIABLES
    question,     \* the item under evaluation
    userAnswer,   \* the raw answer handed to evaluateAnswer
    halfUp,       \* how the arithmetic of the current arguments resolves a half
    evaluation,   \* <<>> or <<the EvaluationResult of the latest call>>
    strategies,   \* the strategies the latest evaluateAnswer call ran
    earlier,      \* <<>> or <<the result of the call before, same arguments>>
    card,         \* the scheduling fields persisted for the question
    clock,        \* Date.now()
    lastCall,     \* <<>> or <<the arguments of the latest calculateNextReview>>
    lastReview,   \* <<>> or <<what that call returned>>
    earlierReview,\* <<>> or <<what the call before returned>>, if it had the
                  \* same arguments
    calls,        \* calculateNextReview calls fed with the card so far
    perfectRun,   \* how many of them, from the first on, had score 100
    outcome,      \* <<>> or <<the latest call of a text primitive>>
    platform,     \* "native" (questionService) or "web" (webStorage)
    store,        \* the stored questions, in the order of their creation
    questions,    \* the questions as the study session loaded them
    currentIndex, \* the session's position in them, from 0
    phase,        \* "question", "answering" or "feedback"
    results,      \* the session's results
    awaiting      \* the handleSubmit calls of the mounted screen that await
                  \* updateQuestionAfterReview

evalVars == <<question, userAnswer, halfUp, evaluation, strategies, earlier>>

schedVars == <<card, clock, lastCall, lastReview, earlierReview, calls, perfectRun>>

textVars == <<outcome>>

storeVars == <<platform, store>>

sessionVars == <<questions, currentIndex, phase, results, awaiting>>

vars == <<question, userAnswer, halfUp, evaluation, strategies, earlier,
          card, clock, lastCall, lastReview, earlierReview, calls, perfectRun,
          outcome, platform, store, questions, currentIndex, phase, results,
          awaiting>>

\* a question as createQuestion stores it: never reviewed
newCard ==
    [easeFactor |-> InitialEaseFactor, interval |-> 0, repetitions |-> 0,
     nextReviewDate |-> <<>>]

InitEval ==
    /\ evaluation = <<>>
    /\ strategies = {}
    /\ earlier = <<>>

InitSched ==
    /\ card = newCard
    /\ clock = 0
    /\ lastCall = <<>>
    /\ lastReview = <<>>
    /\ earlierReview = <<>>
    /\ calls = 0
    /\ perfectRun = 0

InitText == outcome = <<>>

\* the storage of a first start: no questions
InitStore ==
    /\ platform = "web"
    /\ store = <<>>

\* the state hooks of StudySessionScreen
InitSession ==
    /\ questions = <<>>
    /\ currentIndex = 0
    /\ phase = "question"
    /\ results = <<>>
    /\ awaiting = 0

(***************************************************************************)
(* Evaluation: the arguments are drawn at the start, every step is one     *)
(* evaluateAnswer call on them with a fresh Math.random().                 *)
(***************************************************************************)
EvalInit ==
    /\ question \in QuestionItems
    /\ userAnswer \in UserAnswers
    /\ halfUp \in BOOLEAN
    /\ InitEval
    /\ InitSched
    /\ InitText
    /\ InitStore
    /\ InitSession

Evaluate ==
    \E random \in 0..(MessageTemplates - 1) :
        /\ evaluation' = <<evaluateAnswer(userAnswer, question, random, halfUp)>>
        /\ strategies' = strategiesRun(userAnswer, question)
        /\ earlier' = evaluation
        /\ UNCHANGED <<question, userAnswer, halfUp>>
        /\ UNCHANGED <<schedVars, textVars, storeVars, sessionVars>>

EvalNext == Evaluate

EvalSpec == EvalInit /\ [][EvalNext]_vars

(***************************************************************************)
(* Scheduling: every Review is one calculateNextReview call on the card's  *)
(* fields, whose result is persisted as the card.                          *)
(***************************************************************************)
SchedInit ==
    /\ question = powerhouseItem
    /\ userAnswer = <<>>
    /\ halfUp = TRUE
    /\ InitEval
    /\ InitSched
    /\ InitText
    /\ InitStore
    /\ InitSession

Scores == 0..100

\* interval * easeFactor is an exact half in the decimal model
exactHalf(interval, easeFactor) == (interval * easeFactor) % 100 = 50

Review(score) ==
    /\ calls < MaxReviews
    /\ \E up \in IF card.repetitions >= 2 /\ exactHalf(card.interval, card.easeFactor)
                 THEN BOOLEAN ELSE {TRUE} :
        LET sr == calculateNextReview(score, card.easeFactor, card.interval,
                                      card.repetitions, clock, up)
        IN  /\ lastCall' = <<[score |-> score, easeFactor |-> card.easeFactor,
                              interval |-> card.interval,
                              repetitions |-> card.repetitions, halfUp |-> up]>>
            /\ lastReview' = <<sr>>
            /\ card' = sr
    /\ calls' = calls + 1
    /\ perfectRun' = IF score = 100 /\ perfectRun = calls THEN calls + 1 ELSE perfectRun
    /\ UNCHANGED <<clock, earlierReview>>
    /\ UNCHANGED <<evalVars, textVars, storeVars, sessionVars>>

SchedNext == \E score \in Scores : Review(score)

SchedSpec == SchedInit /\ [][SchedNext]_vars

(***************************************************************************)
(* Submission: handleSubmit of the study session on one question.  The     *)
(* session loads the question once; every Submit evaluates the answer,     *)
(* schedules from the loaded fields and persists the result, so a Submit   *)
(* after a Retry calls both functions on the arguments of the call before. *)
(***************************************************************************)
SubmitInit == EvalInit

Submit ==
    \E random \in 0..(MessageTemplates - 1) :
      \E ev \in {evaluateAnswer(userAnswer, question, random, halfUp)} :
        \E sr \in {calculateNextReview(ev.score, newCard.easeFactor,
                      newCard.interval, newCard.repetitions, clock, TRUE)} :
            /\ evaluation' = <<ev>>
            /\ strategies' = strategiesRun(userAnswer, question)
            /\ earlier' = evaluation
            /\ lastCall' = <<[score |-> ev.score,
                              easeFactor |-> newCard.easeFactor,
                              interval |-> newCard.interval,
                              repetitions |-> newCard.repetitions,
                              halfUp |-> TRUE]>>
            /\ lastReview' = <<sr>>
            /\ earlierReview' = IF lastCall' = lastCall THEN lastReview ELSE <<>>
            /\ card' = sr
            /\ UNCHANGED <<question, userAnswer, halfUp, clock, calls, perfectRun>>
            /\ UNCHANGED <<textVars, storeVars, sessionVars>>

Tick ==
    /\ clock < MaxClock
    /\ clock' = clock + 1
    /\ UNCHANGED <<card, lastCall, lastReview, earlierReview, calls, perfectRun>>
    /\ UNCHANGED <<evalVars, textVars, storeVars, sessionVars>>

SubmitNext == Submit \/ Tick

SubmitSpec == SubmitInit /\ [][SubmitNext]_vars

(***************************************************************************)
(* The text primitives: a behaviour is one call of one of them, on         *)
(* arguments of its own; none of them keeps state between calls.           *)
(***************************************************************************)
\* "he ce": two words, each a part of a word of "the cell"
heCe == <<"h", "e", " ", "c", "e">>

kitten == <<"k", "i", "t", "t", "e", "n">>

sitting == <<"s", "i", "t", "t", "i", "n", "g">>

KeywordTexts == TextsUpTo(2) \cup {blanks, heCe}

Keywords == {<<>>, the, cell, CeltBang, theCell, cell \o <<" ">> \o the, heCe}

\* lists of keywords with their weights: of the same length and positive,
\* shorter, and holding a 0
WeightedKeywords ==
    { [keywords |-> <<>>, keywordWeights |-> <<>>],
      [keywords |-> <<cell>>, keywordWeights |-> <<1>>],
      [keywords |-> <<cell, the>>, keywordWeights |-> <<1, 2>>],
      [keywords |-> <<the, celt>>, keywordWeights |-> <<3, 1>>],
      [keywords |-> <<theCell, celt, the>>, keywordWeights |-> <<5, 2, 1>>],
      [keywords |-> <<cell, the>>, keywordWeights |-> <<1>>],
      [keywords |-> <<cell, the>>, keywordWeights |-> <<0, 0>>] }

RECURSIVE StringsUpTo(_, _)
StringsUpTo(alphabet, n) ==
    IF n = 0 THEN {<<>>}
    ELSE LET shorter == StringsUpTo(alphabet, n - 1)
         IN  shorter \cup {Append(w, c) : w \in shorter, c \in alphabet}

Words == StringsUpTo({"c", "e"}, MaxWordLen)

TextInit ==
    /\ question = powerhouseItem
    /\ userAnswer = <<>>
    /\ halfUp = TRUE
    /\ InitEval
    /\ InitSched
    /\ InitText
    /\ InitStore
    /\ InitSession

AnalyzeKeywords ==
    /\ outcome = <<>>
    /\ \E text \in KeywordTexts, list \in WeightedKeywords :
          outcome' = <<[op |-> "analyzeKeywords", text |-> text,
                        keywords |-> list.keywords, weights |-> list.keywordWeights,
                        value |-> analyzeKeywords(text, list.keywords, list.keywordWeights)]>>
    /\ UNCHANGED <<evalVars, schedVars, storeVars, sessionVars>>

FindKeywordInText ==
    /\ outcome = <<>>
    /\ \E text \in KeywordTexts, keyword \in Keywords :
          outcome' = <<[op |-> "findKeywordInText", text |-> text, keyword |-> keyword,
                        value |-> findKeywordInText(text, keyword)]>>
    /\ UNCHANGED <<evalVars, schedVars, storeVars, sessionVars>>

LevenshteinDistance ==
    /\ outcome = <<>>
    /\ \E pair \in (Words \X Words) \cup {<<kitten, sitting>>, <<sitting, kitten>>} :
          outcome' = <<[op |-> "levenshteinDistance", a |-> pair[1], b |-> pair[2],
                        value |-> levenshteinDistance(pair[1], pair[2])]>>
    /\ UNCHANGED <<evalVars, schedVars, storeVars, sessionVars>>

\* words in either case
CasedWords == StringsUpTo({"c", "e", "C"}, MaxWordLen)

\* thresholds in hundredths: the one of findKeywordInText, the default, and
\* a lower one
Thresholds == {KeywordThreshold, 80, 50}

FuzzyMatch ==
    /\ outcome = <<>>
    /\ \E word \in CasedWords, target \in CasedWords, threshold \in Thresholds :
          outcome' = <<[op |-> "fuzzyMatch", word |-> word, target |-> target,
                        threshold |-> threshold,
                        value |-> fuzzyMatch(word, target, threshold)]>>
    /\ UNCHANGED <<evalVars, schedVars, storeVars, sessionVars>>

WordOverlapSimilarity ==
    /\ outcome = <<>>
    /\ \E a \in KeywordTexts, b \in KeywordTexts :
          outcome' = <<[op |-> "wordOverlapSimilarity", a |-> a, b |-> b,
                        value |-> wordOverlapSimilarity(a, b)]>>
    /\ UNCHANGED <<evalVars, schedVars, storeVars, sessionVars>>

\* "C!<tab>e"
CBangTabE == <<"C", "!", "\t", "e">>

\* letters of either case, a digit, an underscore, punctuation, white space
RawTexts == StringsUpTo({"C", "e", "7", "_", "!", " ", "\t"}, MaxWordLen) \cup {CBangTabE}

\* a call, and a second one on what the first returned
NormalizeText ==
    /\ outcome = <<>>
    /\ \E text \in RawTexts :
        \E value \in {normalizeText(text)} :
          outcome' = <<[op |-> "normalizeText", text |-> text, value |-> value,
                        again |-> normalizeText(value)]>>
    /\ UNCHANGED <<evalVars, schedVars, storeVars, sessionVars>>

TextNext ==
    \/ AnalyzeKeywords
    \/ FindKeywordInText
    \/ LevenshteinDistance
    \/ FuzzyMatch
    \/ WordOverlapSimilarity
    \/ NormalizeText

TextSpec == TextInit /\ [][TextNext]_vars

(***************************************************************************)
(* The item store under createQuestion and updateQuestion, on either       *)
(* platform.                                                               *)
(***************************************************************************)
\* what the callers pass to createQuestion: AddQuestionScreen passes the
\* keywords of its text field or undefined, and no keywordWeights; the
\* import passes the keywords of the file
QuestionInputs ==
    { [deckId |-> 1, expectedAnswers |-> <<answer>>,
       keywords |-> keywords, keywordWeights |-> weights] :
        answer \in {theCell, CeltBang \o spaceCell \o <<" ">> \o celt},
        keywords \in {undefined, <<>>, <<cell>>, <<cell, the>>},
        weights \in {<<>>, <<1>>, <<1, 2>>} }

\* the records of f, one for every choice of the properties present and of
\* their values; choices[f] is the set of values of the property f
RECURSIVE Partials(_, _)
Partials(fields, choices) ==
    IF fields = {} THEN {<<>>}
    ELSE LET f == CHOOSE g \in fields : TRUE
             others == Partials(fields \ {f}, choices)
         IN  others \cup {(f :> v) @@ u : v \in choices[f], u \in others}

\* what the callers pass to updateQuestion: EditQuestionScreen.handleSave
\* passes expectedAnswers and keywords (the list of its text field, or
\* undefined when the field is blank) and never keywordWeights
QuestionUpdates ==
    Partials(Updatable,
             [expectedAnswers |-> {<<cell>>},
              keywords |-> {undefined, <<cell>>, <<cell, the>>},
              keywordWeights |-> {<<2>>, <<1, 2>>}])

StoreInit ==
    /\ question = powerhouseItem
    /\ userAnswer = <<>>
    /\ halfUp = TRUE
    /\ InitEval
    /\ InitSched
    /\ InitText
    /\ platform \in {"native", "web"}
    /\ store = <<>>
    /\ InitSession

CreateQuestion ==
    /\ Len(store) < MaxQuestions
    /\ \E input \in QuestionInputs :
          store' = Append(store, createQuestion(input, Len(store) + 1))
    /\ UNCHANGED <<evalVars, schedVars, textVars, platform, sessionVars>>

UpdateQuestion ==
    /\ \E id \in 1..MaxQuestions, updates \in QuestionUpdates :
          store' = updateQuestion(platform, store, id, updates)
    /\ UNCHANGED <<evalVars, schedVars, textVars, platform, sessionVars>>

StoreNext == CreateQuestion \/ UpdateQuestion

StoreSpec == StoreInit /\ [][StoreNext]_vars

(***************************************************************************)
(* The study session: StudySessionScreen on the deck of route.params, over *)
(* a store of three questions, two of them in that deck.  The screen loads *)
(* the deck's questions once per mount; it is left by its close button or  *)
(* at the end of the session and may be opened again.  The text of the     *)
(* answer field is an input of handleSubmit.  SessionSpec is the session   *)
(* on the web store, over the days of a week.                              *)
(***************************************************************************)
deckId == 1

otherDeckId == 2

SessionStore ==
    << createQuestion([deckId |-> deckId, expectedAnswers |-> <<theCell>>,
                       keywords |-> undefined, keywordWeights |-> <<>>], 1),
       createQuestion([deckId |-> otherDeckId, expectedAnswers |-> <<cell>>,
                       keywords |-> undefined, keywordWeights |-> <<>>], 2),
       createQuestion([deckId |-> deckId, expectedAnswers |-> <<celt, CeltBang \o spaceCell>>,
                       keywords |-> <<celt>>, keywordWeights |-> <<>>], 3) >>

SessionAnswers == {theCell, CeltBang, spaceCell, the, blanks}

\* [...q].sort(() => Math.random() - 0.5): the list in any order
Shuffles(list) ==
    { [i \in DOMAIN list |-> list[order[i]]] :
        order \in { f \in [DOMAIN list -> DOMAIN list] :
                      \A i, j \in DOMAIN list : f[i] = f[j] => i = j } }

SessionInit ==
    /\ question = powerhouseItem
    /\ userAnswer = <<>>
    /\ halfUp = TRUE
    /\ InitEval
    /\ InitSched
    /\ InitText
    /\ platform = "web"
    /\ store = SessionStore
    /\ InitSession

\* questions.length === 0: "Loading questions..."
isLoading == Len(questions) = 0

isComplete == currentIndex >= Len(questions)

currentQuestion == questions[currentIndex + 1]

\* the answer field, Skip and Submit are on the screen
isAsking == ~isLoading /\ ~isComplete /\ phase \in {"question", "answering"}

\* Retry and Next are on the screen
isShowingFeedback == ~isLoading /\ ~isComplete /\ phase = "feedback" /\ evaluation # <<>>

\* what the session reads of a result, and what tells the results apart
sessionResult(score, expectedAnswer, skipped) ==
    [score |-> score, expectedAnswer |-> expectedAnswer, skipped |-> skipped]

\* the scheduling fields the store holds for the question id
schedulingOf(stored, id) ==
    LET q == CHOOSE x \in Range(stored) : x.id = id
    IN  [easeFactor |-> q.easeFactor, interval |-> q.interval,
         repetitions |-> q.repetitions]

\* the effect of the mount: the questions of the deck, shuffled
Load ==
    /\ isLoading
    /\ questions' \in Shuffles(getQuestionsByDeck(store, deckId))
    /\ UNCHANGED <<evalVars, schedVars, textVars, storeVars, currentIndex, phase, results,
                   awaiting>>

\* handleSubmit up to its await, and on the web to its end.  The web store
\* is synchronous (webStorage.ts:215-234), so that the promise awaited is
\* settled and the rest of the handler runs before the next event; the
\* native store answers later (questionService.ts:126-138), and the
\* screen, rendered with the phase unchanged, takes events meanwhile.  The
\* write is in the store for every read issued after the call.
handleSubmit(answer) ==
    /\ isAsking
    /\ trim(answer) # <<>>
    /\ calls < MaxSubmits
    /\ \E random \in 0..(MessageTemplates - 1) :
        \E up \in IF currentQuestion.repetitions >= 2
                      /\ exactHalf(currentQuestion.interval, currentQuestion.easeFactor)
                   THEN BOOLEAN ELSE {TRUE} :
        \E ev \in {evaluateAnswer(answer, currentQuestion, random, halfUp)} :
        \E sr \in {calculateNextReview(ev.score, currentQuestion.easeFactor,
                       currentQuestion.interval, currentQuestion.repetitions, clock, up)} :
            /\ userAnswer' = answer
            /\ evaluation' = <<ev>>
            /\ strategies' = strategiesRun(answer, currentQuestion)
            /\ results' = Append(results, sessionResult(ev.score, ev.expectedAnswer, FALSE))
            /\ lastCall' = <<[score |-> ev.score,
                              easeFactor |-> currentQuestion.easeFactor,
                              interval |-> currentQuestion.interval,
                              repetitions |-> currentQuestion.repetitions,
                              halfUp |-> up,
                              id |-> currentQuestion.id,
                              now |-> clock,
                              persisted |-> schedulingOf(store, currentQuestion.id)]>>
            /\ lastReview' = <<sr>>
            /\ store' = updateQuestionAfterReview(store, currentQuestion.id, ev.score,
                            sr.easeFactor, sr.interval, sr.repetitions,
                            sr.nextReviewDate, clock)
    /\ phase' = IF platform = "web" THEN "feedback" ELSE phase
    /\ awaiting' = IF platform = "web" THEN awaiting ELSE awaiting + 1
    /\ calls' = calls + 1
    /\ UNCHANGED <<question, halfUp, earlier, card, clock, earlierReview, perfectRun>>
    /\ UNCHANGED <<textVars, platform, questions, currentIndex>>

\* the rest of a handleSubmit call once updateQuestionAfterReview has
\* answered: setPhase('feedback'), whatever the screen shows by then
resumeSubmit ==
    /\ awaiting > 0
    /\ phase' = "feedback"
    /\ awaiting' = awaiting - 1
    /\ UNCHANGED <<evalVars, schedVars, textVars, storeVars, questions, currentIndex, results>>

handleNext ==
    /\ isShowingFeedback
    /\ userAnswer' = <<>>
    /\ evaluation' = <<>>
    /\ currentIndex' = currentIndex + 1
    /\ phase' = "question"
    /\ UNCHANGED <<question, halfUp, strategies, earlier>>
    /\ UNCHANGED <<schedVars, textVars, storeVars, questions, results, awaiting>>

handleRetry ==
    /\ isShowingFeedback
    /\ userAnswer' = <<>>
    /\ evaluation' = <<>>
    /\ results' = SubSeq(results, 1, Len(results) - 1)
    /\ phase' = "answering"
    /\ UNCHANGED <<question, halfUp, strategies, earlier>>
    /\ UNCHANGED <<schedVars, textVars, storeVars, questions, currentIndex, awaiting>>

\* a fault: a skip is persisted as a review of score 0
handleSkipGraded ==
    /\ isAsking
    /\ results' = Append(results, sessionResult(0, firstExpected(currentQuestion), TRUE))
    /\ \E sr \in {calculateNextReview(0, currentQuestion.easeFactor,
                       currentQuestion.interval, currentQuestion.repetitions, clock, TRUE)} :
          store' = updateQuestionAfterReview(store, currentQuestion.id, 0,
                       sr.easeFactor, sr.interval, sr.repetitions, sr.nextReviewDate, clock)
    /\ userAnswer' = <<>>
    /\ evaluation' = <<>>
    /\ currentIndex' = currentIndex + 1
    /\ phase' = "question"
    /\ UNCHANGED <<question, halfUp, strategies, earlier>>
    /\ UNCHANGED <<schedVars, textVars, platform, questions, awaiting>>

\* the skip result is appended, then handleNext runs
handleSkip ==
    /\ isAsking
    /\ results' = Append(results, sessionResult(0, firstExpected(currentQuestion), TRUE))
    /\ userAnswer' = <<>>
    /\ evaluation' = <<>>
    /\ currentIndex' = currentIndex + 1
    /\ phase' = "question"
    /\ UNCHANGED <<question, halfUp, strategies, earlier>>
    /\ UNCHANGED <<schedVars, textVars, storeVars, questions, awaiting>>

\* the screen is left and mounted again: its state hooks start anew, and
\* what a call of the screen before sets has no effect on them
Remount ==
    /\ ~isLoading
    /\ userAnswer' = <<>>
    /\ evaluation' = <<>>
    /\ questions' = <<>>
    /\ currentIndex' = 0
    /\ phase' = "question"
    /\ results' = <<>>
    /\ awaiting' = 0
    /\ UNCHANGED <<question, halfUp, strategies, earlier>>
    /\ UNCHANGED <<schedVars, textVars, storeVars>>

\* a day passes
Advance ==
    /\ clock < MaxDays * DayTicks
    /\ clock' = clock + DayTicks
    /\ UNCHANGED <<card, lastCall, lastReview, earlierReview, calls, perfectRun>>
    /\ UNCHANGED <<evalVars, textVars, storeVars, sessionVars>>

SessionNext ==
    \/ Load
    \/ \E answer \in SessionAnswers : handleSubmit(answer)
    \/ handleNext
    \/ handleRetry
    \/ handleSkip
    \/ Remount
    \/ Advance

SessionSpec == SessionInit /\ [][SessionNext]_vars

(***************************************************************************)
(* The study session on the native store, in one mount of the screen and   *)
(* at one time of the day: the handlers of the buttons the screen shows,   *)
(* and the handleSubmit calls that resume.                                 *)
(***************************************************************************)
NativeSessionInit ==
    /\ question = powerhouseItem
    /\ userAnswer = <<>>
    /\ halfUp = TRUE
    /\ InitEval
    /\ InitSched
    /\ InitText
    /\ platform = "native"
    /\ store = SessionStore
    /\ InitSession

NativeSessionNext ==
    \/ Load
    \/ \E answer \in SessionAnswers : handleSubmit(answer)
    \/ resumeSubmit
    \/ handleNext
    \/ handleRetry
    \/ handleSkip

NativeSessionSpec == NativeSessionInit /\ [][NativeSessionNext]_vars

(***************************************************************************)
(* Properties of evaluateAnswer (EvalSpec)                                 *)
(***************************************************************************)
Evaluated == evaluation # <<>>

\* the result of the latest call
result == evaluation[1]

\* the normalized user answer is the normalized form of some expected answer
MatchesExactly ==
    normalizeText(userAnswer) \in
        { normalizeText(question.expectedAnswers[e]) :
            e \in DOMAIN question.expectedAnswers }

\* C1: every result of evaluateAnswer, also for an item whose keywordWeights
\* is shorter than keywords or holds a 0, has score and keywordScore in 0..100.
C1_ScoresInRange ==
    Evaluated => result.score \in 0..100 /\ result.keywordScore \in 0..100

\* C2: when the normalized answer equals the normalized form of any expected
\* answer, the result has score 100, keywordScore 100, every keyword of the
\* item marked found and category perfect, and no strategy has run.
C2_ExactMatch ==
    (Evaluated /\ MatchesExactly) =>
        /\ result.score = 100
        /\ result.keywordScore = 100
        /\ Len(result.keywordDetails) = Len(question.keywords)
        /\ \A i \in DOMAIN question.keywords :
              /\ result.keywordDetails[i].keyword = question.keywords[i]
              /\ result.keywordDetails[i].found
        /\ result.feedback.category = "perfect"
        /\ strategies = {}

\* an exact match on an expected answer that is not the first one
C2_Witness ==
    /\ Evaluated
    /\ MatchesExactly
    /\ Len(question.expectedAnswers) = 2
    /\ normalizeText(userAnswer) # normalizeText(question.expectedAnswers[1])
    /\ Len(question.keywords) = 2

FracPlus(x, y) == Frac(x.n * y.d + y.n * x.d, x.d * y.d)

FracTimes(k, x) == Frac(k * x.n, x.d)

\* the maximum of a set of fractions, none of them negative; 0 for the
\* empty set
FracMaximum(S) ==
    CHOOSE x \in S \cup {Frac(0, 1)} : \A y \in S : ~FracLess(x, y)

normalizedAnswer == normalizeText(userAnswer)

\* K: the analyzeKeywords score of the normalized answer
KeywordPercent ==
    analyzeKeywords(normalizedAnswer, question.keywords, question.keywordWeights).score

\* O: the maximum wordOverlapSimilarity over the expected answers
OverlapPercent ==
    FracMaximum({ wordOverlapSimilarity(normalizedAnswer, question.expectedAnswers[e]) :
                    e \in DOMAIN question.expectedAnswers })

\* E: the maximum of max(0, 1 - editDistance/max(len, len, 1)) * 100
EditPercent ==
    FracMaximum({ LET b == normalizeText(question.expectedAnswers[e])
                      longest == Max(1, Max(Len(normalizedAnswer), Len(b)))
                      d == levenshteinDistance(normalizedAnswer, b)
                  IN  Frac(Max(0, longest - d) * 100, longest) :
                    e \in DOMAIN question.expectedAnswers })

\* the words of a normalized text that are longer than 2 characters
WordsLongerThanTwo(text) == SelectSeq(split(text), LAMBDA w : Len(w) > 2)

\* the share of the 2-word phrases of an expected answer that occur in the
\* normalized user answer, in percent; 0 when it has no phrase
PhrasePercentOf(expected) ==
    LET long == WordsLongerThanTwo(normalizeText(expected))
        phraseAt(i) == long[i] \o <<" ">> \o long[i + 1]
        positions == 1..(Len(long) - 1)
        occurring == { i \in positions : includes(normalizedAnswer, phraseAt(i)) }
    IN  IF positions = {} THEN Frac(0, 1)
        ELSE Frac(Cardinality(occurring) * 100, Cardinality(positions))

\* P: the maximum of it over the expected answers
PhrasePercent ==
    FracMaximum({ PhrasePercentOf(question.expectedAnswers[e]) :
                    e \in DOMAIN question.expectedAnswers })

\* 45 K + 25 O + 15 E + 15 P, one hundred times the combined score
HundredfoldCombined ==
    FracPlus(FracPlus(FracTimes(45, KeywordPercent), FracTimes(25, OverlapPercent)),
             FracPlus(FracTimes(15, EditPercent), FracTimes(15, PhrasePercent)))

\* s is x/100 rounded to the nearest integer and clamped to 0..100; an exact
\* half may have gone either way (see halfUp)
IsRoundedAndClamped(s, x) ==
    \/ /\ s \in 0..99
       /\ (2 * s - 1) * 100 * x.d <= 2 * x.n
       /\ 2 * x.n <= (2 * s + 1) * 100 * x.d
    \/ /\ s = 100
       /\ 199 * 100 * x.d <= 2 * x.n

\* C3: when the answer matches no expected answer exactly, the score is
\* round(0.45 K + 0.25 O + 0.15 E + 0.15 P) clamped to 0..100.
C3_CombinedScore ==
    (Evaluated /\ ~MatchesExactly) =>
        IsRoundedAndClamped(result.score, HundredfoldCombined)

\* a combined score with two expected answers, a matched phrase and an
\* answer that is neither empty nor fully right
C3_Witness ==
    /\ Evaluated
    /\ ~MatchesExactly
    /\ Len(question.expectedAnswers) = 2
    /\ PhrasePercent.n > 0
    /\ OverlapPercent.n > 0
    /\ result.score \in 50..99

\* C4: the feedback category is a function of the score alone, on the exact
\* path and on the combined path: perfect iff 100, excellent iff 90..99,
\* good iff 70..89, needsWork iff 50..69, incorrect iff below 50.
C4_CategoryByScore ==
    Evaluated =>
        /\ result.feedback.category = "perfect" <=> result.score = 100
        /\ result.feedback.category = "excellent" <=> result.score \in 90..99
        /\ result.feedback.category = "good" <=> result.score \in 70..89
        /\ result.feedback.category = "needsWork" <=> result.score \in 50..69
        /\ result.feedback.category = "incorrect" <=> result.score < 50
        /\ result.feedback.message.category = result.feedback.category

\* a combined score on a category boundary
C4_Witness ==
    /\ Evaluated
    /\ ~MatchesExactly
    /\ result.score = 90
    /\ result.feedback.category = "excellent"

\* C9: for the powerhouse item, the answer "the mitochondria is the
\* powerhouse" has both keywords found (keywordScore 100) and a score of at
\* least 90 (category excellent or perfect).
C9_PowerhouseAtLeast90 ==
    (Evaluated /\ question = powerhouseItem /\ userAnswer = powerhouseReply) =>
        /\ \A i \in DOMAIN result.keywordDetails : result.keywordDetails[i].found
        /\ result.keywordScore = 100
        /\ result.score >= 90
        /\ result.feedback.category \in {"excellent", "perfect"}

\* C9 as amended: both keywords are found (keywordScore 100) and the score
\* is 75: 45 for the keywords, 16.67 for 4 of 6 words, 9.29 for an edit
\* distance of 16 on 42 characters and 3.75 for 1 phrase of 4; category good.
C9_PowerhouseIs75 ==
    (Evaluated /\ question = powerhouseItem /\ userAnswer = powerhouseReply) =>
        /\ Len(result.keywordDetails) = 2
        /\ \A i \in DOMAIN result.keywordDetails : result.keywordDetails[i].found
        /\ result.keywordScore = 100
        /\ result.score = 75
        /\ result.feedback.category = "good"

C9_Witness ==
    /\ Evaluated
    /\ question = powerhouseItem
    /\ userAnswer = powerhouseReply
    /\ strategies = {"keyword", "overlap", "distance", "phrase"}

\* the item has no expected answer, or its keywords and keywordWeights
\* differ in length
InvalidItem ==
    \/ Len(question.expectedAnswers) = 0
    \/ Len(question.keywords) # Len(question.keywordWeights)

\* C11: a call on an item without expected answers, or whose keywords and
\* keywordWeights differ in length, signals an InvalidItemError: it returns
\* no EvaluationResult.
C11_InvalidItemError == InvalidItem => ~Evaluated

\* the answer is empty, or holds white space or punctuation only
NothingSaid == normalizedAnswer = <<>>

\* the item has a keyword that does not normalize to the empty string, and
\* no expected answer that does
AsksForSomething ==
    /\ \E k \in DOMAIN question.keywords : normalizeText(question.keywords[k]) # <<>>
    /\ \A e \in DOMAIN question.expectedAnswers :
          normalizeText(question.expectedAnswers[e]) # <<>>

\* C12: for an item with a keyword of non-empty normalized form and no
\* expected answer of empty normalized form, an answer that is empty or
\* holds white space or punctuation only has no keyword marked found and
\* keywordScore 0.
C12_EmptyAnswerFindsNothing ==
    (Evaluated /\ NothingSaid /\ AsksForSomething) =>
        /\ \A i \in DOMAIN result.keywordDetails : ~result.keywordDetails[i].found
        /\ result.keywordScore = 0

(***************************************************************************)
(* Properties of calculateNextReview (SchedSpec)                           *)
(***************************************************************************)
Reviewed == lastCall # <<>>

\* the arguments and the result of the latest call
given == lastCall[1]

returned == lastReview[1]

\* q is score/100*5 rounded to the nearest integer, a half upwards
IsQuality(q, score) ==
    /\ q \in 0..5
    /\ 20 * q - 10 <= score
    /\ score < 20 * q + 10

\* n is interval * easeFactor (in hundredths) rounded to the nearest
\* integer; an exact half may have gone either way (see halfUp)
IsRoundedProduct(n, interval, easeFactor) ==
    /\ 200 * n - 100 <= 2 * interval * easeFactor
    /\ 2 * interval * easeFactor <= 200 * n + 100

\* easeFactor + 0.1 - (5-q)*(0.08 + (5-q)*0.02), at least 1.3; in hundredths
SM2EaseFactor(easeFactor, q) ==
    LET lack == 5 - q
        moved == easeFactor + 10 - 8 * lack - 2 * lack * lack
    IN  IF moved < 130 THEN 130 ELSE moved

\* C5: every call returns the SM-2 step of its arguments.
C5_SM2Step ==
    Reviewed =>
        \E q \in 0..5 :
            /\ IsQuality(q, given.score)
            /\ q >= 3 =>
                  /\ returned.repetitions = given.repetitions + 1
                  /\ given.repetitions = 0 => returned.interval = 1
                  /\ given.repetitions = 1 => returned.interval = 6
                  /\ given.repetitions > 1 =>
                        IsRoundedProduct(returned.interval, given.interval,
                                         given.easeFactor)
            /\ q < 3 => returned.repetitions = 0 /\ returned.interval = 1
            /\ returned.easeFactor = SM2EaseFactor(given.easeFactor, q)

\* a passing call on a question that passed at least twice, with an ease
\* factor that the call changes and that is not an integer
C5_Witness ==
    /\ Reviewed
    /\ given.repetitions >= 2
    /\ given.score >= 90
    /\ given.easeFactor % 100 # 0
    /\ returned.interval > given.interval
    /\ returned.easeFactor # given.easeFactor

\* C6: from a new question on, easeFactor never falls below 1.3 and
\* interval and repetitions are never negative.
C6_SchedulingFloors ==
    /\ card.easeFactor >= 130
    /\ card.interval >= 0
    /\ card.repetitions >= 0
    /\ Reviewed => /\ returned.easeFactor >= 130
                   /\ returned.interval >= 0
                   /\ returned.repetitions >= 0

\* the floor has cut the ease factor: the step would have led below 1.3
C6_Witness ==
    /\ Reviewed
    /\ card.easeFactor = 130
    /\ given.easeFactor < 200
    /\ given.score < 10

\* C7: every call with score < 60 returns repetitions 0 and interval 1, and
\* an easeFactor not above the one passed in and not below 1.3.
C7_FailBelow60 ==
    (Reviewed /\ given.score < 60) =>
        /\ returned.repetitions = 0
        /\ returned.interval = 1
        /\ returned.easeFactor <= given.easeFactor
        /\ returned.easeFactor >= 130

\* C7 as amended: every call with score < 50 (quality < 3) on an easeFactor
\* of at least 1.3 returns repetitions 0 and interval 1, and an easeFactor
\* not above the one passed in and not below 1.3.
C7_FailBelow50 ==
    (Reviewed /\ given.score < 50 /\ given.easeFactor >= 130) =>
        /\ returned.repetitions = 0
        /\ returned.interval = 1
        /\ returned.easeFactor <= given.easeFactor
        /\ returned.easeFactor >= 130

\* a failing call, just below the threshold, that resets a run of passes
C7_Witness ==
    /\ Reviewed
    /\ given.score = 49
    /\ given.repetitions >= 2
    /\ given.interval > 1
    /\ returned.repetitions = 0
    /\ returned.easeFactor < given.easeFactor

\* C8: from a new question, three calls with score 100 yield the intervals
\* 1, 6, round(6 * easeFactor passed into the third) and repetitions 1, 2, 3.
C8_PerfectRun ==
    (perfectRun = calls) =>
        /\ calls = 1 => card.interval = 1 /\ card.repetitions = 1
        /\ calls = 2 => card.interval = 6 /\ card.repetitions = 2
        /\ calls = 3 => /\ given.interval = 6
                        /\ IsRoundedProduct(card.interval, 6, given.easeFactor)
                        /\ (6 * given.easeFactor) % 100 # 50
                        /\ card.repetitions = 3

C8_Witness ==
    /\ perfectRun = 3
    /\ calls = 3
    /\ card.interval = 16
    /\ given.easeFactor = 270

\* the latest call took the pass branch
Passed == returned.repetitions = given.repetitions + 1

\* the categories generateFeedback gives the score, over the templates
CategoriesOf(score) ==
    { generateFeedback(score, <<>>, random).category :
        random \in 0..(MessageTemplates - 1) }

\* C26: calculateNextReview takes the pass branch exactly for the scores of
\* at least 50, which are the scores generateFeedback does not call
\* incorrect; its quality is 5 exactly for the scores called perfect or
\* excellent, 4 exactly for good and 3 exactly for needsWork.
C26_PassIffNotIncorrect ==
    Reviewed =>
        \E q \in 0..5 :
            /\ IsQuality(q, given.score)
            /\ returned.easeFactor = SM2EaseFactor(given.easeFactor, q)
            /\ Passed <=> q >= 3
            /\ ~Passed <=> (returned.repetitions = 0 /\ returned.interval = 1)
            /\ Passed <=> given.score >= 50
            /\ Passed <=> "incorrect" \notin CategoriesOf(given.score)
            /\ q = 5 <=> CategoriesOf(given.score) \in {{"perfect"}, {"excellent"}}
            /\ q = 4 <=> CategoriesOf(given.score) = {"good"}
            /\ q = 3 <=> CategoriesOf(given.score) = {"needsWork"}

\* the lowest score called excellent is graded with quality 5: the ease
\* factor rises by 0.1
C26_Witness ==
    /\ Reviewed
    /\ given.score = 90
    /\ CategoriesOf(given.score) = {"excellent"}
    /\ Passed
    /\ returned.easeFactor = given.easeFactor + 10

\* C27: from a new question on, interval and repetitions go together: the
\* interval is at least 1 after the first call; it is 1 at repetitions 0
\* (0 before the first call) and at repetitions 1, 6 at repetitions 2 and
\* at least 8 from repetitions 3 on.
C27_IntervalOfRepetitions ==
    /\ calls > 0 => card.interval >= 1
    /\ card.repetitions = 0 => card.interval = (IF calls = 0 THEN 0 ELSE 1)
    /\ card.repetitions = 1 => card.interval = 1
    /\ card.repetitions = 2 => card.interval = 6
    /\ card.repetitions >= 3 => card.interval >= 8

\* the third pass in a row at the lowest ease factor: 8 days
C27_Witness ==
    /\ card.repetitions = 3
    /\ card.interval = 8
    /\ given.easeFactor = MinEaseFactor
    /\ given.interval = 6

\* C28: a passing review (score >= 50) after a new question or a failed
\* review sets the interval to 1, the next pass in a row to 6, and every
\* further one to more than it was, so that the interval grows from each
\* pass of the run to the next; a failing review sets interval to 1 and
\* repetitions to 0.
C28_IntervalGrows ==
    [][ calls' = calls + 1 =>
          /\ lastCall'[1].score >= 50 =>
                /\ card'.repetitions = card.repetitions + 1
                /\ card.repetitions = 0 => card'.interval = 1
                /\ card.repetitions = 1 => card'.interval = 6
                /\ card.repetitions >= 1 => card'.interval > card.interval
          /\ lastCall'[1].score < 50 =>
                /\ card'.interval = 1
                /\ card'.repetitions = 0 ]_vars

\* a run of four passes is ended by a failing review
C28_Witness ==
    /\ Reviewed
    /\ given.repetitions = 4
    /\ given.interval > 8
    /\ given.score < 50
    /\ card.interval = 1
    /\ card.repetitions = 0

(***************************************************************************)
(* Properties of repeated calls (SubmitSpec)                               *)
(***************************************************************************)
\* C10: two evaluateAnswer calls on the same answer and item agree on score,
\* keywordScore, keywordDetails and category whatever Math.random() yields,
\* and two calculateNextReview calls on the same arguments agree on
\* easeFactor, interval and repetitions whatever the clock reads.
C10_Deterministic ==
    /\ (Evaluated /\ earlier # <<>>) =>
          /\ result.score = earlier[1].score
          /\ result.keywordScore = earlier[1].keywordScore
          /\ result.keywordDetails = earlier[1].keywordDetails
          /\ result.feedback.category = earlier[1].feedback.category
    /\ (Reviewed /\ earlierReview # <<>>) =>
          /\ returned.easeFactor = earlierReview[1].easeFactor
          /\ returned.interval = earlierReview[1].interval
          /\ returned.repetitions = earlierReview[1].repetitions

\* two calls that differ in the message template and in the clock
C10_Witness ==
    /\ Evaluated
    /\ earlier # <<>>
    /\ result.feedback.message.template # earlier[1].feedback.message.template
    /\ earlierReview # <<>>
    /\ returned.nextReviewDate # earlierReview[1].nextReviewDate

(***************************************************************************)
(* Properties of the item store (StoreSpec)                                *)
(***************************************************************************)
\* C13: whatever createQuestion and updateQuestion calls were made, on
\* either platform, every stored question has as many keywordWeights as
\* keywords.
C13_WeightsParallel ==
    \A i \in DOMAIN store :
        /\ store[i].keywords # undefined
        /\ Len(store[i].keywords) = Len(store[i].keywordWeights)

(***************************************************************************)
(* Properties of the study session (SessionSpec)                           *)
(***************************************************************************)
\* what getDueQuestions returns for the deck now, when called without limit
dueNow == getDueQuestions(store, deckId, 0, clock)

isDue(q) == \E i \in DOMAIN dueNow : dueNow[i].id = q.id

\* the stored question of the latest handleSubmit
reviewed == CHOOSE q \in Range(store) : q.id = given.id

\* C14: a question of the deck that was never reviewed has no nextReviewDate
\* and is returned by getDueQuestions without a limit at any time; once the
\* review of time t, whose calculateNextReview result has the interval i, is
\* persisted, the nextReviewDate of the question is t + i days, and
\* getDueQuestions returns the question at the times from t + i days on and
\* at no time before.
C14_DueAfterInterval ==
    /\ \A n \in DOMAIN dueNow : dueNow[n].deckId = deckId
    /\ \A n \in DOMAIN store :
          LET q == store[n]
          IN  q.deckId = deckId =>
                /\ q.reviewCount = 0 => q.nextReviewDate = <<>> /\ isDue(q)
                /\ q.reviewCount > 0 =>
                      /\ q.nextReviewDate = <<q.lastReviewed[1] + q.interval * DayTicks>>
                      /\ isDue(q) <=> clock >= q.lastReviewed[1] + q.interval * DayTicks
    /\ Reviewed =>
          /\ reviewed.lastReviewed = <<given.now>>
          /\ reviewed.interval = returned.interval
          /\ reviewed.nextReviewDate = <<given.now + returned.interval * DayTicks>>

\* six days after its second pass a question is due again, at the very hour
\* of its nextReviewDate, behind a question that was never reviewed
C14_Witness ==
    /\ Reviewed
    /\ reviewed.interval = 6
    /\ reviewed.nextReviewDate = <<clock>>
    /\ given.now > 0
    /\ Len(dueNow) = 2
    /\ dueNow[1].nextReviewDate = <<>>
    /\ dueNow[2] = reviewed

SkipStep ==
    /\ Len(results') = Len(results) + 1
    /\ results'[Len(results')].skipped
    /\ results'[Len(results')].score = 0

\* the step is a graded answer: it shows the feedback of a result that is
\* not a skip, after one calculateNextReview call
GradedStep ==
    /\ phase' = "feedback"
    /\ evaluation' # <<>>
    /\ Len(results') = Len(results) + 1
    /\ ~results'[Len(results')].skipped
    /\ calls' = calls + 1

\* the scheduling state of a stored question
schedulingState(q) ==
    <<q.easeFactor, q.interval, q.repetitions, q.nextReviewDate,
      q.reviewCount, q.correctCount, q.masteryLevel>>

\* C16: a skip appends a result with skipped = true and score 0 and leaves
\* easeFactor, interval, repetitions, nextReviewDate, reviewCount,
\* correctCount and masteryLevel of every stored question as they are; the
\* scheduling state of a question changes only in the step of a graded
\* answer, and then by one review of that question.
C16_SkipLeavesStore ==
    [][ /\ SkipStep =>
            \A n \in DOMAIN store : schedulingState(store'[n]) = schedulingState(store[n])
        /\ \A n \in DOMAIN store :
              schedulingState(store'[n]) # schedulingState(store[n]) =>
                  /\ GradedStep
                  /\ store[n].id = lastCall'[1].id
                  /\ store'[n].reviewCount = store[n].reviewCount + 1 ]_vars

\* a question was skipped after another one was graded: the skipped one
\* is stored as it was created
C16_Witness ==
    /\ ~isLoading
    /\ currentIndex = 2
    /\ Len(results) = 2
    /\ ~results[1].skipped
    /\ results[2].skipped
    /\ results[2].score = 0
    /\ calls = 1
    /\ schedulingOf(store, questions[2].id) = schedulingOf(SessionStore, questions[2].id)
    /\ schedulingOf(store, questions[1].id) # schedulingOf(SessionStore, questions[1].id)

\* C29: correctCount lies between 0 and reviewCount for every stored
\* question, and every updateQuestionAfterReview call of a session, a call
\* after a Retry included, adds 1 to the reviewCount of its question, adds
\* 1 to its correctCount exactly when the score is at least 70, sets its
\* masteryLevel to the score capped at 100, and leaves these fields of
\* every other question as they are.
C29_ReviewCounts ==
    /\ [](\A n \in DOMAIN store :
            /\ 0 <= store[n].correctCount
            /\ store[n].correctCount <= store[n].reviewCount)
    /\ [][ \A n \in DOMAIN store :
              IF calls' = calls + 1 /\ store[n].id = lastCall'[1].id
              THEN /\ store'[n].reviewCount = store[n].reviewCount + 1
                   /\ store'[n].correctCount =
                         store[n].correctCount + (IF lastCall'[1].score >= 70 THEN 1 ELSE 0)
                   /\ store'[n].masteryLevel = Min(100, lastCall'[1].score)
              ELSE /\ store'[n].reviewCount = store[n].reviewCount
                   /\ store'[n].correctCount = store[n].correctCount
                   /\ store'[n].masteryLevel = store[n].masteryLevel ]_vars

\* an answer scoring 69, a Retry, and an answer scoring 100 on the same
\* question: two reviews, one of them correct
C29_Witness ==
    /\ Reviewed
    /\ Len(results) = 1
    /\ results[1].score = 100
    /\ reviewed.reviewCount = 2
    /\ reviewed.correctCount = 1
    /\ reviewed.masteryLevel = 100
    /\ given.repetitions = 0

(***************************************************************************)
(* Properties of the study session on the native store                     *)
(* (NativeSessionSpec)                                                     *)
(***************************************************************************)
\* the results of the question: those with its first expected answer, which
\* no other question of the session has
resultsOf(q) ==
    { n \in DOMAIN results : results[n].expectedAnswer = firstExpected(q) }

\* what handleEndSession counts
answeredQuestions == Cardinality({ n \in DOMAIN results : ~results[n].skipped })

skippedQuestions == Cardinality({ n \in DOMAIN results : results[n].skipped })

\* C24: whatever handlers ran, and while whatever handleSubmit calls await
\* the store, results holds at most one entry for every question of the
\* session, and answeredQuestions + skippedQuestions is at most
\* totalQuestions.
C24_OneResultPerQuestion ==
    /\ \A i \in DOMAIN questions : Cardinality(resultsOf(questions[i])) <= 1
    /\ answeredQuestions + skippedQuestions <= Len(questions)

\* C25: whenever the phase is feedback, currentEval is set, and it is the
\* evaluation of the current question.
C25_FeedbackHasEvaluation ==
    (phase = "feedback" /\ ~isLoading /\ ~isComplete) =>
        /\ evaluation # <<>>
        /\ evaluation[1].expectedAnswer = firstExpected(currentQuestion)

(***************************************************************************)
(* Properties of the text primitives (TextSpec)                            *)
(***************************************************************************)
\* the latest call
call == outcome[1]

Called(op) == outcome # <<>> /\ call.op = op

\* the weights are as many as the keywords and all positive
ParallelPositive(keywords, weights) ==
    /\ Len(weights) = Len(keywords)
    /\ \A i \in DOMAIN weights : weights[i] > 0

\* the sum of w over the positions in S
RECURSIVE WeightOf(_, _)
WeightOf(S, w) ==
    IF S = {} THEN 0
    ELSE LET i == CHOOSE j \in S : TRUE IN w[i] + WeightOf(S \ {i}, w)

\* the positions of the keywords found in the text
FoundIn(text, keywords) ==
    { i \in DOMAIN keywords : findKeywordInText(text, keywords[i]) }

\* C17: for keywords with as many weights, all positive, analyzeKeywords
\* returns score 100 and no details when there is no keyword, and otherwise
\* score = 100 * (weight of the keywords found) / (total weight) and one
\* {keyword, found, weight} entry per keyword, in the order of the keywords;
\* for weights of the same length that sum to 0 the score is 0.
C17_WeightedCoverage ==
    Called("analyzeKeywords") =>
        LET keywords == call.keywords
            weights == call.weights
            total == WeightOf(DOMAIN weights, weights)
            found == FoundIn(call.text, keywords)
        IN  /\ ParallelPositive(keywords, weights) =>
                /\ Len(call.value.details) = Len(keywords)
                /\ \A i \in DOMAIN keywords :
                      call.value.details[i] =
                          [keyword |-> keywords[i], found |-> i \in found,
                           weight |-> weights[i]]
                /\ keywords = <<>> => call.value.score = Frac(100, 1)
                /\ keywords # <<>> =>
                      call.value.score.n * total =
                          100 * WeightOf(found, weights) * call.value.score.d
            /\ (Len(weights) = Len(keywords) /\ keywords # <<>> /\ total = 0) =>
                  call.value.score = Frac(0, 1)

\* three keywords of different weights, the lightest one the only one
\* found: a score of 12.5
C17_Witness ==
    /\ Called("analyzeKeywords")
    /\ Len(call.keywords) = 3
    /\ ParallelPositive(call.keywords, call.weights)
    /\ FoundIn(call.text, call.keywords) = {3}
    /\ call.value.score = Frac(25, 2)

FracAtMost(x, y) == ~FracLess(y, x)

\* C19: for the same keywords and the same positive weights, a text in
\* which a superset of keywords is found has an analyzeKeywords score, and
\* a rounded keywordScore, that is not lower.
C19_KeywordMonotone ==
    (Called("analyzeKeywords") /\ \A i \in DOMAIN call.weights : call.weights[i] > 0) =>
        \A text \in KeywordTexts :
            LET less == analyzeKeywords(text, call.keywords, call.weights)
            IN  FoundIn(text, call.keywords) \subseteq FoundIn(call.text, call.keywords) =>
                  /\ FracAtMost(less.score, call.value.score)
                  /\ \A up \in BOOLEAN :
                        MathRound(less.score, up) <= MathRound(call.value.score, up)

\* a text that finds two keywords, over a text that finds one of them
C19_Witness ==
    /\ Called("analyzeKeywords")
    /\ \A i \in DOMAIN call.weights : call.weights[i] > 0
    /\ Cardinality(FoundIn(call.text, call.keywords)) = 2
    /\ \E text \in KeywordTexts :
          /\ Cardinality(FoundIn(text, call.keywords)) = 1
          /\ FoundIn(text, call.keywords) \subseteq FoundIn(call.text, call.keywords)
          /\ FracLess(analyzeKeywords(text, call.keywords, call.weights).score,
                      call.value.score)

\* the least number of insertions, deletions and substitutions of one
\* character that turn a into b: the first characters are matched (at the
\* cost of a substitution when they differ), or the first of a is deleted,
\* or the first of b is inserted
RECURSIVE EditDistance(_, _)
EditDistance(a, b) ==
    IF a = <<>> THEN Len(b)
    ELSE IF b = <<>> THEN Len(a)
    ELSE Min(EditDistance(Tail(a), Tail(b)) + (IF Head(a) = Head(b) THEN 0 ELSE 1),
             Min(EditDistance(Tail(a), b) + 1, EditDistance(a, Tail(b)) + 1))

\* C20: levenshteinDistance(a, b) is the least number of insertions,
\* deletions and substitutions turning a into b; it is symmetric, 0 for
\* a = b, satisfies d(a, c) <= d(a, b) + d(b, c), and is 3 for "kitten"
\* and "sitting".
C20_Levenshtein ==
    Called("levenshteinDistance") =>
        /\ call.a \in Words /\ call.b \in Words =>
              call.value = EditDistance(call.a, call.b)
        /\ call.value = levenshteinDistance(call.b, call.a)
        /\ call.a = call.b => call.value = 0
        /\ \A c \in Words :
              levenshteinDistance(call.a, c) <= call.value + levenshteinDistance(call.b, c)
        /\ (call.a = kitten /\ call.b = sitting) => call.value = 3

\* the call on "kitten" and "sitting"
C20_Witness ==
    /\ Called("levenshteinDistance")
    /\ call.a = kitten
    /\ call.b = sitting
    /\ call.value = 3

\* the strings are close: equal, or one within the other, or of a similarity
\* 1 - EditDistance/longer length of at least threshold hundredths
Close(a, b, threshold) ==
    \/ a = b
    \/ includes(a, b)
    \/ includes(b, a)
    \/ 100 * (Max(Len(a), Len(b)) - EditDistance(a, b)) >= threshold * Max(Len(a), Len(b))

\* C21 as stated: fuzzyMatch(word, target, threshold) is true exactly when
\* word and target are equal ignoring case, or one contains the other, or
\* 1 - editDistance(word, target) / max(len(word), len(target)) >= threshold.
C21_FuzzyMatchAsWritten ==
    Called("fuzzyMatch") =>
        (call.value <=> \/ toLowerCase(call.word) = toLowerCase(call.target)
                        \/ Close(call.word, call.target, call.threshold))

\* C21 as amended: fuzzyMatch(word, target, threshold) is true exactly when
\* the lower-cased word and the lower-cased target are equal, or one
\* contains the other, or 1 - editDistance / max length of the two is at
\* least threshold; two empty strings match.
C21_FuzzyMatchIgnoringCase ==
    Called("fuzzyMatch") =>
        /\ call.value <=>
              Close(toLowerCase(call.word), toLowerCase(call.target), call.threshold)
        /\ (call.word = <<>> /\ call.target = <<>>) => call.value

\* "Cce" and "cee" match at 0.5 by their similarity of 2/3 alone, which
\* they have only when the case is ignored
C21_Witness ==
    /\ Called("fuzzyMatch")
    /\ call.word = <<"C", "c", "e">>
    /\ call.target = <<"c", "e", "e">>
    /\ call.threshold = 50
    /\ call.value
    /\ ~Close(call.word, call.target, call.threshold)

\* the words of a normalized text: its longest stretches without a space
WordsOf(text) ==
    LET n == normalizeText(text)
        free(i, j) == \A k \in i..j : n[k] # " "
    IN  { SubSeq(n, i, j) : <<i, j>> \in
            { x \in (DOMAIN n) \X (DOMAIN n) :
                /\ x[1] <= x[2]
                /\ free(x[1], x[2])
                /\ (x[1] = 1 \/ n[x[1] - 1] = " ")
                /\ (x[2] = Len(n) \/ n[x[2] + 1] = " ") } }

\* C22: wordOverlapSimilarity(a, b) is 100 * |A \cap B| / |A \cup B| for the
\* sets A and B of the words of the normalized a and b; it lies in 0..100,
\* is 100 when both sets are empty and 0 when exactly one is; equal sets
\* give 100 and disjoint sets that are not empty give 0.
C22_Jaccard ==
    Called("wordOverlapSimilarity") =>
        LET A == WordsOf(call.a)
            B == WordsOf(call.b)
        IN  /\ call.value.n >= 0
            /\ call.value.n <= 100 * call.value.d
            /\ (A = {} /\ B = {}) => call.value = Frac(100, 1)
            /\ (A = {}) # (B = {}) => call.value = Frac(0, 1)
            /\ (A # {} /\ B # {}) =>
                  call.value.n * Cardinality(A \cup B)
                      = 100 * Cardinality(A \cap B) * call.value.d
            /\ A = B => call.value = Frac(100, 1)
            /\ (A # {} /\ B # {} /\ A \cap B = {}) => call.value = Frac(0, 1)

\* "the cell" and " cell cell" share one of two words
C22_Witness ==
    /\ Called("wordOverlapSimilarity")
    /\ call.a = theCell
    /\ call.b = spaceCell \o spaceCell
    /\ call.value = Frac(50, 1)

\* C23: normalizeText returns, for every text, a string of lower-case
\* letters, digits, underscores and spaces that neither starts nor ends
\* with a space and has no two spaces in a row; a text without a word
\* character yields the empty string; normalizing the result again returns
\* it unchanged.
C23_Normalized ==
    Called("normalizeText") =>
        LET v == call.value
        IN  /\ \A i \in DOMAIN v : v[i] \in (WordChars \ Range(UpperCase)) \cup {" "}
            /\ v # <<>> => v[1] # " " /\ v[Len(v)] # " "
            /\ \A i \in 1..(Len(v) - 1) : ~(v[i] = " " /\ v[i + 1] = " ")
            /\ (\A i \in DOMAIN call.text : call.text[i] \notin WordChars) => v = <<>>
            /\ call.again = v

\* "C!<tab>e" becomes "c e"
C23_Witness ==
    /\ Called("normalizeText")
    /\ call.text = CBangTabE
    /\ call.value = <<"c", " ", "e">>
    /\ call.again = call.value

(***************************************************************************)
(* Properties of evaluateAnswer on items without phrases (EvalSpec)        *)
(***************************************************************************)
\* no expected answer of the item has two words of more than 2 characters
WithoutPhrase ==
    \A e \in DOMAIN question.expectedAnswers :
        Len(WordsLongerThanTwo(normalizeText(question.expectedAnswers[e]))) < 2

\* C30: for an item with as many positive weights as keywords, none of
\* whose expected answers has two words of more than 2 characters, every
\* answer that is not an exact normalized match scores at most 85 and is
\* called neither perfect nor excellent.
C30_NoPhraseAtMost85 ==
    ( /\ Evaluated
      /\ ParallelPositive(question.keywords, question.keywordWeights)
      /\ WithoutPhrase
      /\ ~MatchesExactly ) =>
        /\ result.score <= 85
        /\ result.feedback.category \notin {"perfect", "excellent"}

\* " cell cell" for the answers "cell" and "a cell": the keyword and every
\* word are there, and the score is good
C30_Witness ==
    /\ Evaluated
    /\ question.expectedAnswers = <<cell, aCell>>
    /\ ParallelPositive(question.keywords, question.keywordWeights)
    /\ WithoutPhrase
    /\ userAnswer = spaceCell \o spaceCell
    /\ ~MatchesExactly
    /\ result.keywordScore = 100
    /\ result.score >= 70
    /\ result.feedback.category = "good"

=============================================================================
